---- MODULE Spec2Model ----
(***************************************************************************)
(* Model of the Visual Product Matcher frontend: the ImageUpload preview   *)
(* lifecycle, the FilterPanel state controller and its wiring to App, the  *)
(* App search / toast state machine, and the HTTP client (api.ts).         *)
(*                                                                         *)
(* The components own disjoint state, so each has its own specification:   *)
(*   SpecUpload  ImageUpload.tsx                                           *)
(*   SpecPanel   FilterPanel (unnamed/part_003) wired to App's filters     *)
(*   SpecApp     App.tsx: searches and toasts                              *)
(*   SpecMount   App.tsx: the three calls of the mount effect              *)
(*   SpecSelect  App.tsx: the details drawer over searches                 *)
(*   SpecCancel  App.tsx: handleFiles when its search call is cancellable  *)
(*   SpecApi     api.ts: one client call from issue to settlement          *)
(*   SpecForm    api.ts: the multipart body built for a search             *)
(*   SpecAbort   api.ts: the calls made through one withAbort wrapper      *)
(* Every specification constrains every variable; the variables of the     *)
(* other components stay at their initial values.                          *)
(***************************************************************************)
EXTENDS Integers, Sequences, FiniteSets, TLC

VARIABLES
    \* ---- ImageUpload ----
    previews,      \* useState<string[]>: the preview URLs, newest first
    created,       \* number of object URLs handed out by URL.createObjectURL
    revoked,       \* url -> number of URL.revokeObjectURL calls on it
    uploadMounted, \* the component is mounted
    forwarded,     \* size of the last batch passed to onFiles (0: none yet)
    batches,       \* the sizes of the non-empty batches handled, oldest first
    \* ---- FilterPanel and the App state it is wired to ----
    state,         \* FilterPanel useState<FilterState>
    filters,       \* App useState<PanelFilters>; the panel's value prop
    stateIsDEFAULTS,   \* state is the module-level DEFAULTS object itself
    filtersIsDEFAULTS, \* filters is the module-level DEFAULTS object itself
    valueChanged,  \* the [value] effect is due (value changed in the last commit)
    stateChanged,  \* the [state] effect is due (state changed in the last commit)
    emitted,       \* <<>> or <<f>>: the argument of the last onChange call
    edits,         \* number of user edits so far
    edit,          \* the last user edit: its kind, input and the state before it
    emitFollowsEdit, \* the last onChange call was the first one after an edit
    commitParity,  \* number of commits (re-renders) of the panel so far, modulo 2
    \* ---- api.ts: one client call at a time ----
    call,          \* the current call: function, signal, phase, response, request sent
    outcome,       \* how the call's promise settled
    calls,         \* number of calls made so far
    \* ---- api.ts: the multipart body of a search ----
    formArgs,      \* the arguments of the last buildSearchForm call
    formBody,      \* the FormData it returned: its parts, in append order
    \* ---- api.ts: one withAbort wrapper ----
    controllerAborted, \* controller.signal.aborted
    runs,          \* the calls started through run, in order
    \* ---- App: the calls of the mount effect ----
    apiHealthy,    \* useState<boolean | null>(null): <<>> is null
    categories,    \* useState<string[]>([]): the value held, array or not
    tags,          \* useState<string[]>([])
    mount,         \* how each of the three calls issued on mount has settled
    \* ---- App: searches and toasts ----
    isSearching,   \* useState(false)
    results,       \* useState<Product[]>([]): product ids, in display order
    total,         \* useState(0)
    toasts,        \* useState<Toast[]>([])
    timers,        \* toast id -> number of pending setTimeout removals for it
    inflight,      \* the uploadAndSearch calls awaiting settlement: number, and
                   \* the results and total shown when the files were submitted
    submitted,     \* number of non-empty file submissions so far
    tips,          \* number of "New Search" clicks so far
    ev,            \* the last App step, with the state it started from
    \* ---- App: the details drawer ----
    selected       \* useState<Product | null>(null): <<>> is null

uploadVars == <<previews, created, revoked, uploadMounted, forwarded, batches>>

panelVars == <<state, filters, stateIsDEFAULTS, filtersIsDEFAULTS, valueChanged,
               stateChanged, emitted, edits, edit, emitFollowsEdit, commitParity>>

apiVars == <<call, outcome, calls>>

formVars == <<formArgs, formBody>>

abortVars == <<controllerAborted, runs>>

mountVars == <<apiHealthy, categories, tags, mount>>

appVars == <<isSearching, results, total, toasts, timers, inflight, submitted,
             tips, ev>>

selectVars == <<selected>>

vars == <<uploadVars, panelVars, apiVars, formVars, abortVars, mountVars, appVars,
          selectVars>>

\* What each component leaves alone: the state of the others.
nonUploadVars ==
    <<panelVars, apiVars, formVars, abortVars, mountVars, appVars, selectVars>>
nonPanelVars ==
    <<uploadVars, apiVars, formVars, abortVars, mountVars, appVars, selectVars>>
nonApiVars ==
    <<uploadVars, panelVars, formVars, abortVars, mountVars, appVars, selectVars>>
nonFormVars ==
    <<uploadVars, panelVars, apiVars, abortVars, mountVars, appVars, selectVars>>
nonAbortVars ==
    <<uploadVars, panelVars, apiVars, formVars, mountVars, appVars, selectVars>>
nonMountVars ==
    <<uploadVars, panelVars, apiVars, formVars, abortVars, appVars, selectVars>>
nonAppVars ==
    <<uploadVars, panelVars, apiVars, formVars, abortVars, mountVars, selectVars>>
\* What the drawer handlers leave alone, App's search and toast state but ev
\* included
nonSelectVars ==
    <<uploadVars, panelVars, apiVars, formVars, abortVars, mountVars, isSearching,
      results, total, toasts, timers, inflight, submitted, tips>>

----------------------------------------------------------------------------
(* Generic helpers *)

Range(s) == {s[i] : i \in 1..Len(s)}

Min2(a, b) == IF a <= b THEN a ELSE b

\* Array.prototype.slice(0, n)
SliceTo(s, n) == SubSeq(s, 1, Min2(n, Len(s)))

----------------------------------------------------------------------------
(* ImageUpload.tsx *)

\* slice(0, 6) in handleFiles
PreviewCap == 6

\* Bounds of the upload model: files per batch and object URLs ever created.
MaxBatch == 7
MaxUrls == 9

Urls == 1..MaxUrls

\* arr.map((f) => URL.createObjectURL(f)): fresh URLs, in file order
NewUrls(n) == [i \in 1..n |-> created + i]

\* Mutant of NextPreviews: the new URLs are put after the old ones.
NextPreviewsOldestFirst(urls, p) == SliceTo(p \o urls, PreviewCap)

\* setPreviews((p) => [...urls, ...p].slice(0, 6))
NextPreviews(urls, p) == SliceTo(urls \o p, PreviewCap)

\* The cleanup returned by useEffect(..., [previews]): it closes over the
\* previews of the render that installed it and revokes each of them.
RevokeAll(old, rv) == [u \in Urls |-> IF u \in Range(old) THEN rv[u] + 1 ELSE rv[u]]

UploadStart ==
    /\ previews = <<>>
    /\ created = 0
    /\ revoked = [u \in Urls |-> 0]
    /\ uploadMounted = TRUE
    /\ forwarded = 0
    /\ batches = <<>>

\* handleFiles(files) for a non-empty batch (picker, drop or paste), with the
\* re-render it causes: previews changes, so the previous effect's cleanup
\* runs over the previous previews before the new effect is installed.
UploadHandleFiles(n) ==
    /\ uploadMounted
    /\ n >= 1
    /\ created + n <= MaxUrls
    /\ LET urls == NewUrls(n) IN
         /\ previews' = NextPreviews(urls, previews)
         /\ created' = created + n
         /\ revoked' = RevokeAll(previews, revoked)
         /\ forwarded' = n
         /\ batches' = Append(batches, n)
    /\ UNCHANGED <<uploadMounted, nonUploadVars>>

\* handleFiles(files) with no file: the early return.
UploadHandleEmpty ==
    /\ uploadMounted
    /\ forwarded' = 0
    /\ UNCHANGED <<previews, created, revoked, uploadMounted, batches, nonUploadVars>>

\* Unmount: the last effect's cleanup revokes the current previews.
UploadTeardown ==
    /\ uploadMounted
    /\ uploadMounted' = FALSE
    /\ revoked' = RevokeAll(previews, revoked)
    /\ UNCHANGED <<previews, created, forwarded, batches, nonUploadVars>>

UploadNext ==
    \/ \E n \in 1..MaxBatch : UploadHandleFiles(n)
    \/ UploadHandleEmpty
    \/ UploadTeardown


----------------------------------------------------------------------------
(* FilterPanel (unnamed/part_003) and its wiring in App.tsx *)

\* Bound of the panel model: user edits per behaviour.
MaxEdits == 3

\* category: string | null is modelled as <<>> (null) or <<c>>.
\* price: [number, number] is the pair <<min, max>>.
DEFAULTS ==
    [query |-> "", category |-> <<>>, price |-> <<0, 1000>>, colors |-> <<>>,
     inStock |-> FALSE, detectedTags |-> <<>>, sort |-> "relevance"]

\* useState<PanelFilters>({...}) in App
AppInitialFilters ==
    [query |-> "", category |-> <<>>, price |-> <<0, 1000>>, colors |-> <<>>,
     inStock |-> FALSE, detectedTags |-> <<>>, sort |-> "relevance"]

\* The inputs a user can produce in the model.
QueryTexts == {"", "bag"}
CategoryValues == {"", "shoes"}            \* <option value=""> All, and one category
PriceTexts == {"", "500", "2000"}          \* e.target.value of a number input
ColorOptions == {"#111827", "#ef4444"}     \* two of the availableColors
TagOptions == {"sneaker", "tote"}          \* availableTags
SortKeys == {"relevance", "price_asc"}

\* Number(text) for the texts a number input can hold
Number(text) ==
    CASE text = "" -> 0
      [] text = "0" -> 0
      [] text = "500" -> 500
      [] text = "2000" -> 2000

\* Number(e.target.value || 0)
CoercePrice(text) == IF text = "" THEN 0 ELSE Number(text)

\* Array.prototype.includes / filter((x) => x !== v)
Includes(s, v) == \E i \in 1..Len(s) : s[i] = v
Without(s, v) == SelectSeq(s, LAMBDA x : x # v)

\* { ...s, ...value }: every own field of value overrides s
Merge(s, value) ==
    [f \in (DOMAIN s) \cup (DOMAIN value) |->
        IF f \in DOMAIN value THEN value[f] ELSE s[f]]

\* Mutant of setQuery: the updater forgets to spread the previous state.
setQueryNoSpread(s, text) == [DEFAULTS EXCEPT !.query = text]

\* The setState updaters of the panel's inputs
setQuery(s, text) == [s EXCEPT !.query = text]
setCategory(s, v) == [s EXCEPT !.category = IF v = "" THEN <<>> ELSE <<v>>]
setMin(s, text) == [s EXCEPT !.price = <<CoercePrice(text), s.price[2]>>]
setMax(s, text) == [s EXCEPT !.price = <<s.price[1], CoercePrice(text)>>]
setInStock(s, checked) == [s EXCEPT !.inStock = checked]
setSort(s, key) == [s EXCEPT !.sort = key]

\* Mutant of toggleColor: the value is added whether or not it is present.
toggleColorAddOnly(s, hex) == [s EXCEPT !.colors = Append(s.colors, hex)]

toggleColor(s, hex) ==
    [s EXCEPT !.colors =
        IF Includes(s.colors, hex) THEN Without(s.colors, hex)
        ELSE Append(s.colors, hex)]

\* Mutant of toggleTag: the tag is appended even when already present.
toggleTagAddOnly(s, t) == [s EXCEPT !.detectedTags = Append(s.detectedTags, t)]

toggleTag(s, t) ==
    [s EXCEPT !.detectedTags =
        IF Includes(s.detectedTags, t) THEN Without(s.detectedTags, t)
        ELSE Append(s.detectedTags, t)]

\* minMax: the pair shown in the price label
minMax(s) ==
    <<IF s.price[1] <= s.price[2] THEN s.price[1] ELSE s.price[2],
      IF s.price[1] >= s.price[2] THEN s.price[1] ELSE s.price[2]>>

\* toApiFilters in App.tsx: query and category are <<>> where the object
\* holds undefined ("" || undefined, null ?? undefined)
toApiFilters(f) ==
    LET base == [price |-> f.price, colors |-> f.colors, inStock |-> f.inStock,
                 detectedTags |-> f.detectedTags, sort |-> f.sort]
        q == IF f.query = "" THEN <<>> ELSE <<f.query>>
    IN  [base |-> base, query |-> q, category |-> f.category]

NoEdit ==
    [kind |-> "none", text |-> "", checked |-> FALSE, pre |-> DEFAULTS,
     fresh |-> FALSE]

\* After the first render of App and FilterPanel: state is the fresh object
\* {...DEFAULTS, ...value}, and both effects are due (effects run on mount).
PanelStart ==
    /\ filters = AppInitialFilters
    /\ state = Merge(DEFAULTS, AppInitialFilters)
    /\ stateIsDEFAULTS = FALSE
    /\ filtersIsDEFAULTS = FALSE
    /\ valueChanged = TRUE
    /\ stateChanged = TRUE
    /\ emitted = <<>>
    /\ edits = 0
    /\ edit = NoEdit
    /\ emitFollowsEdit = FALSE
    /\ commitParity = 0

\* A user edit through one of the inputs: setState((s) => updater(s)) and the
\* re-render.  Every updater builds a new object, so the [state] effect is due.
PanelApply(kind, text, checked, next) ==
    /\ edits < MaxEdits
    /\ edits' = edits + 1
    /\ edit' = [kind |-> kind, text |-> text, checked |-> checked, pre |-> state,
                fresh |-> TRUE]
    /\ state' = next
    /\ stateIsDEFAULTS' = FALSE
    /\ stateChanged' = TRUE
    /\ emitFollowsEdit' = FALSE
    /\ commitParity' = 1 - commitParity
    /\ UNCHANGED <<filters, filtersIsDEFAULTS, valueChanged, emitted, nonPanelVars>>

EditQuery == \E x \in QueryTexts : PanelApply("query", x, FALSE, setQuery(state, x))
EditCategory ==
    \E x \in CategoryValues : PanelApply("category", x, FALSE, setCategory(state, x))
EditMin == \E x \in PriceTexts : PanelApply("min", x, FALSE, setMin(state, x))
EditMax == \E x \in PriceTexts : PanelApply("max", x, FALSE, setMax(state, x))
EditColor == \E x \in ColorOptions : PanelApply("color", x, FALSE, toggleColor(state, x))
EditTag == \E x \in TagOptions : PanelApply("tag", x, FALSE, toggleTag(state, x))
EditInStock == \E b \in BOOLEAN : PanelApply("inStock", "", b, setInStock(state, b))
EditSort == \E x \in SortKeys : PanelApply("sort", x, FALSE, setSort(state, x))

\* clearAll: setState(DEFAULTS).  Setting the object the state already is
\* bails out: no re-render, no effect.
clearAll ==
    /\ edits < MaxEdits
    /\ edits' = edits + 1
    /\ edit' = [kind |-> "clear", text |-> "", checked |-> FALSE, pre |-> state,
                fresh |-> TRUE]
    /\ state' = DEFAULTS
    /\ stateIsDEFAULTS' = TRUE
    /\ stateChanged' = (stateChanged \/ ~stateIsDEFAULTS)
    /\ emitFollowsEdit' = FALSE
    /\ commitParity' = IF stateIsDEFAULTS THEN commitParity ELSE 1 - commitParity
    /\ UNCHANGED <<filters, filtersIsDEFAULTS, valueChanged, emitted, nonPanelVars>>

\* The passive effects of the last commit, and the re-render they cause.
\*   [value] effect: setState((s) => ({...s, ...value})), always a new object.
\*   [state] effect: onChange(state), i.e. App's setFilters(state); setting the
\*   object filters already is bails out.
\* Both read the state and value of the render that scheduled them.
\* After a user edit the step covers the effects still due from the commit
\* before the edit and those of the edit's own commit: the merge updater of
\* the stale value is queued behind the edit's updater, and the last onChange
\* carries the edited state.
PanelEffects ==
    /\ valueChanged \/ stateChanged
    /\ LET sameObject == stateIsDEFAULTS /\ filtersIsDEFAULTS IN
         /\ state' = IF valueChanged THEN Merge(state, filters) ELSE state
         /\ stateIsDEFAULTS' = IF valueChanged THEN FALSE ELSE stateIsDEFAULTS
         /\ stateChanged' = valueChanged
         /\ filters' = IF stateChanged THEN state ELSE filters
         /\ filtersIsDEFAULTS' =
               IF stateChanged THEN stateIsDEFAULTS ELSE filtersIsDEFAULTS
         /\ valueChanged' = (stateChanged /\ ~sameObject)
         /\ emitted' = IF stateChanged THEN <<state>> ELSE emitted
         /\ emitFollowsEdit' = (stateChanged /\ edit.fresh)
         /\ edit' = IF stateChanged THEN [edit EXCEPT !.fresh = FALSE] ELSE edit
         /\ commitParity' =
               IF valueChanged \/ (stateChanged /\ ~sameObject)
               THEN 1 - commitParity ELSE commitParity
    /\ UNCHANGED <<edits, nonPanelVars>>

PanelNext ==
    \/ EditQuery
    \/ EditCategory
    \/ EditMin
    \/ EditMax
    \/ EditColor
    \/ EditTag
    \/ EditInStock
    \/ EditSort
    \/ clearAll
    \/ PanelEffects

----------------------------------------------------------------------------
(* api.ts: the HTTP client *)

\* Bound of the client model: calls per behaviour.
MaxCalls == 2

\* An optional JSON field or value is <<>> (absent/undefined) or <<v>>.
\* A response body is described by its raw text (what res.text() yields) and
\* by its parse (what res.json() yields, or that it throws):
\*   json = "none"    the text is not JSON, res.json() throws
\*   json = "null"    the JSON value null
\*   json = "array"   a JSON array of strings (list)
\*   json = "object"  a JSON object with the optional fields below
NoFields == [message |-> <<>>, detail |-> <<>>, items |-> <<>>, total |-> <<>>, list |-> <<>>]

BodyEmpty == [text |-> "", json |-> "none"] @@ NoFields
BodyHtml == [text |-> "<h1>Bad Gateway</h1>", json |-> "none"] @@ NoFields
BodyNull == [text |-> "null", json |-> "null"] @@ NoFields
BodyMessage ==
    [text |-> "{\"message\":\"index not built\"}", json |-> "object",
     message |-> <<"index not built">>] @@ NoFields
BodyEmptyMessage ==
    [text |-> "{\"message\":\"\"}", json |-> "object", message |-> <<"">>] @@ NoFields
BodyDetail ==
    [text |-> "{\"detail\":\"Not Found\"}", json |-> "object",
     detail |-> <<"Not Found">>] @@ NoFields
BodyMessageDetail ==
    [text |-> "{\"message\":\"bad image\",\"detail\":\"decode failed\"}",
     json |-> "object", message |-> <<"bad image">>,
     detail |-> <<"decode failed">>] @@ NoFields
BodyEmptyObject == [text |-> "{}", json |-> "object"] @@ NoFields
BodyList ==
    [text |-> "[\"shoes\",\"bags\"]", json |-> "array",
     list |-> <<"shoes", "bags">>] @@ NoFields
BodyNoItems ==
    [text |-> "{\"items\":[],\"total\":0}", json |-> "object",
     items |-> << <<>> >>, total |-> <<0>>] @@ NoFields
BodyNoItemsTotal2 ==
    [text |-> "{\"items\":[],\"total\":2}", json |-> "object",
     items |-> << <<>> >>, total |-> <<2>>] @@ NoFields
BodyTotalOnly ==
    [text |-> "{\"total\":0}", json |-> "object", total |-> <<0>>] @@ NoFields
BodyOneItem ==
    [text |-> "{\"items\":[{\"id\":\"p1\"}],\"total\":1}", json |-> "object",
     items |-> << <<"p1">> >>, total |-> <<1>>] @@ NoFields
BodyTwoItems ==
    [text |-> "{\"items\":[{\"id\":\"p2\"},{\"id\":\"p1\"}],\"total\":2}",
     json |-> "object", items |-> << <<"p2", "p1">> >>, total |-> <<2>>] @@ NoFields

ErrorBodies ==
    {BodyEmpty, BodyHtml, BodyNull, BodyMessage, BodyEmptyMessage, BodyDetail,
     BodyMessageDetail, BodyEmptyObject}

SuccessBodies ==
    {BodyEmpty, BodyHtml, BodyNull, BodyEmptyObject, BodyList, BodyNoItems,
     BodyNoItemsTotal2, BodyTotalOnly, BodyOneItem, BodyTwoItems}

Response(ok, status, statusText, body) ==
    [ok |-> ok, status |-> status, statusText |-> statusText, body |-> body]

\* The responses the backend can give in the model.
Responses ==
    {Response(TRUE, 200, "OK", b) : b \in SuccessBodies}
    \cup {Response(FALSE, 500, "Internal Server Error", b) : b \in ErrorBodies}
    \cup {Response(FALSE, 404, "Not Found", b) : b \in ErrorBodies}

NoResponse == Response(FALSE, 0, "", BodyEmpty)

\* A settled promise.  value is the body the promise resolved with.
Resolved(body) ==
    [settled |-> "resolved", errorName |-> "", message |-> "", value |-> body]
Rejected(name, message) ==
    [settled |-> "rejected", errorName |-> name, message |-> message,
     value |-> BodyEmpty]
Pending == [settled |-> "pending", errorName |-> "", message |-> "", value |-> BodyEmpty]

\* a || b on optional strings: the first operand unless it is undefined or ""
OrElse(a, b) == IF a # <<>> /\ a[1] # "" THEN a[1] ELSE b

\* payload?.message, payload?.detail: undefined unless payload is an object
\* (payload stays null when res.json() throws)
FieldOfPayload(body, field) == IF body.json = "object" THEN body[field] ELSE <<>>

\* fetch(url, { signal }): with a signal that is already aborted the promise
\* rejects with an AbortError and no request is made (Fetch Standard);
\* otherwise the request is sent.  signal is "none", "live" or "aborted" when
\* the function is called ("aborted in flight": aborted after the request).
Fetch(signal) ==
    IF signal = "aborted"
    THEN [sent |-> FALSE,
          result |-> Rejected("AbortError", "signal is aborted without reason")]
    ELSE [sent |-> TRUE, result |-> Pending]

\* Mutant of apiRequestSettle: detail is preferred to message.
apiRequestSettleDetailFirst(res) ==
    IF ~res.ok
    THEN Rejected("Error",
            OrElse(FieldOfPayload(res.body, "detail"),
              OrElse(FieldOfPayload(res.body, "message"),
                "API error " \o ToString(res.status) \o " " \o res.statusText)))
    ELSE Resolved(res.body)

\* apiRequest after fetch resolved with res: parse the body (failure ignored),
\* throw on !res.ok, else return the payload.
apiRequestSettle(res) ==
    IF ~res.ok
    THEN Rejected("Error",
            OrElse(FieldOfPayload(res.body, "message"),
              OrElse(FieldOfPayload(res.body, "detail"),
                "API error " \o ToString(res.status) \o " " \o res.statusText)))
    ELSE Resolved(res.body)

\* uploadAndSearch after fetch resolved with res
uploadAndSearchSettle(res) ==
    IF ~res.ok
    THEN Rejected("Error",
            OrElse(<<res.body.text>>,
                "Search failed: " \o ToString(res.status) \o " " \o res.statusText))
    ELSE IF res.body.json = "none"
         THEN Rejected("SyntaxError", "Unexpected end of JSON input")
         ELSE Resolved(res.body)

\* Mutant of uploadAndSearchStart: the signal is not handed to fetch.
uploadAndSearchStartNoSignal(signal) == Fetch("none")

\* uploadAndSearch up to its first await: build the form, call fetch with the
\* caller's signal.
uploadAndSearchStart(signal) == Fetch(signal)

\* apiRequest up to its first await: fetch with ...opts, signal included.
apiRequestStart(signal) == Fetch(signal)

ApiRequestFns ==
    {"getHealth", "getCategories", "getTags", "precomputeEmbeddings", "getProduct"}

ApiFns == ApiRequestFns \cup {"uploadAndSearch"}

Signals == {"none", "live", "aborted"}

Idle ==
    [fn |-> "", signal |-> "none", phase |-> "idle", sent |-> FALSE,
     answered |-> FALSE, res |-> NoResponse]

ApiStart ==
    /\ call = Idle
    /\ outcome = Pending
    /\ calls = 0

\* A client function is called; it runs to its first await.
ApiCall(fn, signal) ==
    /\ call.phase \in {"idle", "settled"}
    /\ calls < MaxCalls
    /\ calls' = calls + 1
    /\ LET f == IF fn = "uploadAndSearch" THEN uploadAndSearchStart(signal)
                ELSE apiRequestStart(signal)
       IN  /\ call' = [fn |-> fn, signal |-> signal,
                       phase |-> IF f.sent THEN "pending" ELSE "settled",
                       sent |-> f.sent, answered |-> FALSE, res |-> NoResponse]
           /\ outcome' = f.result
    /\ UNCHANGED nonApiVars

\* The backend answers; the function runs to completion.
ApiRespond(res) ==
    /\ call.phase = "pending"
    /\ call' = [call EXCEPT !.phase = "settled", !.answered = TRUE, !.res = res]
    /\ outcome' = IF call.fn = "uploadAndSearch" THEN uploadAndSearchSettle(res)
                  ELSE apiRequestSettle(res)
    /\ UNCHANGED <<calls, nonApiVars>>

\* The request fails below HTTP (backend unreachable): fetch rejects.
ApiNetworkError ==
    /\ call.phase = "pending"
    /\ call' = [call EXCEPT !.phase = "settled"]
    /\ outcome' = Rejected("TypeError", "Failed to fetch")
    /\ UNCHANGED <<calls, nonApiVars>>

\* The caller aborts the signal while the request is in flight: fetch rejects.
ApiAbort ==
    /\ call.phase = "pending"
    /\ call.signal = "live"
    /\ call' = [call EXCEPT !.phase = "settled", !.signal = "aborted in flight"]
    /\ outcome' = Rejected("AbortError", "signal is aborted without reason")
    /\ UNCHANGED <<calls, nonApiVars>>

ApiNext ==
    \/ \E fn \in ApiFns, signal \in Signals : ApiCall(fn, signal)
    \/ \E res \in Responses : ApiRespond(res)
    \/ ApiNetworkError
    \/ ApiAbort

----------------------------------------------------------------------------
(* api.ts: buildSearchForm, the multipart body of uploadAndSearch *)

\* Bound of the form model: files per call.
MaxFiles == 2

\* File.name of the files in the model; a pasted blob may have an empty name.
FileNames == {"shoe.png", ""}

\* The keys of Filters, in the order toApiFilters writes them.
FilterKeys == <<"query", "category", "price", "colors", "inStock", "detectedTags", "sort">>

\* JSON.stringify of a string, of an array of encoded elements, of a boolean
JsonString(s) == "\"" \o s \o "\""

RECURSIVE JsonJoin(_)
JsonJoin(elems) ==
    IF Len(elems) = 0 THEN ""
    ELSE IF Len(elems) = 1 THEN elems[1]
    ELSE elems[1] \o "," \o JsonJoin(Tail(elems))

JsonArray(elems) == "[" \o JsonJoin(elems) \o "]"

JsonBoolean(b) == IF b THEN "true" ELSE "false"

\* A Filters object: a function from its own keys to <<>> (the key holds
\* undefined) or <<j>> (the key holds a value whose JSON text is j).
\* The object toApiFilters(f) returns: all seven keys, query and category
\* possibly undefined.
ApiFiltersObject(f) ==
    LET a == toApiFilters(f) IN
    [query |-> IF a.query = <<>> THEN <<>> ELSE <<JsonString(a.query[1])>>,
     category |-> IF a.category = <<>> THEN <<>> ELSE <<JsonString(a.category[1])>>,
     price |-> <<JsonArray(<<ToString(a.base.price[1]), ToString(a.base.price[2])>>)>>,
     colors |-> <<JsonArray([i \in 1..Len(a.base.colors) |-> JsonString(a.base.colors[i])])>>,
     inStock |-> <<JsonBoolean(a.base.inStock)>>,
     detectedTags |->
        <<JsonArray([i \in 1..Len(a.base.detectedTags) |->
                        JsonString(a.base.detectedTags[i])])>>,
     sort |-> <<JsonString(a.base.sort)>>]

\* The filters argument: not given (undefined), or an object.
EmptyObject == [k \in {} |-> <<>>]
NoFilters == [given |-> FALSE, obj |-> EmptyObject]
GivenFilters(obj) == [given |-> TRUE, obj |-> obj]

\* Object.keys(filters): the own keys, whatever they hold
ObjectKeys(obj) == DOMAIN obj

\* JSON.stringify(filters): the members whose value is not undefined, in key
\* order, as <<key, JSON text>> pairs.
JsonStringify(obj) ==
    LET present == SelectSeq(FilterKeys, LAMBDA k : k \in DOMAIN obj /\ obj[k] # <<>>)
    IN  [i \in 1..Len(present) |-> <<present[i], obj[present[i]][1]>>]

\* `image_${i}.jpg` for the file at (0-based) index i
DefaultFileName(i) == "image_" \o ToString(i) \o ".jpg"

\* files.forEach((f, i) => form.append("files", f, f.name || `image_${i}.jpg`))
FileParts(files) ==
    [i \in 1..Len(files) |->
        [name |-> "files", file |-> i,
         filename |-> IF files[i] # "" THEN files[i] ELSE DefaultFileName(i - 1),
         json |-> <<>>]]

\* The part form.append("filters", JSON.stringify(filters)) adds
FiltersPart(obj) ==
    [name |-> "filters", file |-> 0, filename |-> "", json |-> JsonStringify(obj)]

\* buildSearchForm(files, filters)
buildSearchForm(files, arg) ==
    FileParts(files) \o
    (IF arg.given /\ Cardinality(ObjectKeys(arg.obj)) > 0
     THEN <<FiltersPart(arg.obj)>> ELSE <<>>)

\* File lists of up to MaxFiles files
FileLists == UNION {[1..n -> FileNames] : n \in 0..MaxFiles}

\* Filters objects a caller of uploadAndSearch may write by hand: any subset
\* of three keys, each holding undefined or a value.
HandWrittenKeys == {"query", "category", "inStock"}

SampleJson(k) ==
    IF k = "query" THEN JsonString("bag")
    ELSE IF k = "category" THEN JsonString("shoes")
    ELSE JsonBoolean(TRUE)

HandWrittenObjects ==
    UNION {{[k \in S |-> IF k \in D THEN <<SampleJson(k)>> ELSE <<>>] : D \in SUBSET S} :
              S \in SUBSET HandWrittenKeys}

\* Panel filters App may hold when files are submitted
SubmittedFilters ==
    {AppInitialFilters,
     setQuery(AppInitialFilters, "bag"),
     toggleColor(setCategory(AppInitialFilters, "shoes"), "#ef4444")}

FormArguments ==
    {NoFilters} \cup {GivenFilters(o) : o \in HandWrittenObjects}
    \cup {GivenFilters(ApiFiltersObject(f)) : f \in SubmittedFilters}

NoForm == [built |-> FALSE, files |-> <<>>, filters |-> NoFilters]

FormStart ==
    /\ formArgs = NoForm
    /\ formBody = <<>>

\* uploadAndSearch(files, filters) builds its body.
FormBuild(files, arg) ==
    /\ formArgs' = [built |-> TRUE, files |-> files, filters |-> arg]
    /\ formBody' = buildSearchForm(files, arg)
    /\ UNCHANGED nonFormVars

FormNext == \E files \in FileLists, arg \in FormArguments : FormBuild(files, arg)

----------------------------------------------------------------------------
(* api.ts: withAbort *)

\* Bound of the wrapper model: calls started through one wrapper's run.
MaxRuns == 2

\* The parameter lists of the client functions, and how many of the leading
\* parameters are required.
FnParams(fn) ==
    IF fn = "uploadAndSearch" THEN <<"files", "filters", "signal">>
    ELSE IF fn = "getProduct" THEN <<"id", "signal">>
    ELSE <<"signal">>

RequiredParams(fn) ==
    IF fn = "uploadAndSearch" THEN 1 ELSE IF fn = "getProduct" THEN 1 ELSE 0

\* The argument counts run accepts for fn: TArgs is fn's parameter list
\* without the trailing signal, optional parameters included.
RunArities(fn) == RequiredParams(fn)..(Len(FnParams(fn)) - 1)

\* fn(...args, controller.signal) with n arguments: what parameter number p
\* receives.  The signal lands right after the last argument given.
BoundAt(p, n) ==
    IF p <= n THEN "argument" ELSE IF p = n + 1 THEN "signal" ELSE "undefined"

\* What the parameter named param of fn receives ("undefined" if fn has none)
BoundTo(fn, n, param) ==
    LET ps == FnParams(fn)
        at == {p \in 1..Len(ps) : ps[p] = param}
    IN  IF at = {} THEN "undefined" ELSE BoundAt(CHOOSE p \in at : TRUE, n)

\* The signal fn hands to fetch, in the terms of Fetch
SignalSeen(fn, n, aborted) ==
    IF BoundTo(fn, n, "signal") = "signal"
    THEN (IF aborted THEN "aborted" ELSE "live")
    ELSE "none"

\* The answers the backend gives to wrapped calls in the model.
WrapReplies ==
    {Response(TRUE, 200, "OK", BodyOneItem),
     Response(FALSE, 500, "Internal Server Error", BodyMessage)}

\* const controller = new AbortController(): nothing started, not aborted.
AbortStart ==
    /\ controllerAborted = FALSE
    /\ runs = <<>>

\* run(...args) with n arguments: fn(...args, controller.signal), up to the
\* first await of fn.
WrapRun(fn, n) ==
    /\ Len(runs) < MaxRuns
    /\ LET sig == SignalSeen(fn, n, controllerAborted)
           f == IF fn = "uploadAndSearch" THEN uploadAndSearchStart(sig)
                ELSE apiRequestStart(sig)
       IN  runs' = Append(runs,
                [fn |-> fn, nargs |-> n,
                 signalParam |-> BoundTo(fn, n, "signal"),
                 filtersParam |-> BoundTo(fn, n, "filters"),
                 afterCancel |-> controllerAborted,
                 sent |-> f.sent,
                 phase |-> IF f.sent THEN "pending" ELSE "settled",
                 outcome |-> f.result])
    /\ UNCHANGED <<controllerAborted, nonAbortVars>>

\* The backend answers call i; the function runs to completion.
WrapRespond(i, res) ==
    /\ i \in 1..Len(runs)
    /\ runs[i].phase = "pending"
    /\ runs' = [runs EXCEPT
                  ![i].phase = "settled",
                  ![i].outcome = IF runs[i].fn = "uploadAndSearch"
                                 THEN uploadAndSearchSettle(res)
                                 ELSE apiRequestSettle(res)]
    /\ UNCHANGED <<controllerAborted, nonAbortVars>>

\* cancel(): controller.abort().  Every pending fetch that was given the
\* signal rejects with an AbortError; a fetch without it goes on.
WrapCancel ==
    /\ controllerAborted' = TRUE
    /\ runs' = [i \in 1..Len(runs) |->
                  IF runs[i].phase = "pending" /\ runs[i].signalParam = "signal"
                  THEN [runs[i] EXCEPT
                          !.phase = "settled",
                          !.outcome = Rejected("AbortError",
                                               "signal is aborted without reason")]
                  ELSE runs[i]]
    /\ UNCHANGED nonAbortVars

AbortNext ==
    \/ \E fn \in ApiFns : \E n \in RunArities(fn) : WrapRun(fn, n)
    \/ \E i \in 1..MaxRuns, res \in WrapReplies : WrapRespond(i, res)
    \/ WrapCancel

----------------------------------------------------------------------------
(* App.tsx: the mount effect (getHealth, getCategories, getTags) *)

MountCalls == {"health", "categories", "tags"}

\* The answers the backend gives to the three GET requests in the model: a
\* JSON array, a 200 whose body is not JSON, and a 503.
MountReplies ==
    {Response(TRUE, 200, "OK", BodyList),
     Response(TRUE, 200, "OK", BodyHtml),
     Response(FALSE, 503, "Service Unavailable", BodyEmpty)}

\* A JavaScript value held in categories or tags: an array of strings, null
\* or an object.
JsList(list) == [json |-> "array", list |-> list]

\* The payload apiRequest resolved with, as a value: a body that is not JSON
\* gives null.
PayloadValue(body) ==
    [json |-> IF body.json = "none" THEN "null" ELSE body.json, list |-> body.list]

\* Mutant of HealthAfter: a failed health call leaves the status as it was.
HealthAfterIgnoresFailure(result, h) ==
    IF result.settled = "resolved" THEN <<TRUE>> ELSE h

\* getHealth().then(() => setApiHealthy(true), () => setApiHealthy(false))
HealthAfter(result, h) ==
    IF result.settled = "resolved" THEN <<TRUE>> ELSE <<FALSE>>

\* getCategories().then(setCategories).catch(() => {}), and the same for tags
ListAfter(result, held) ==
    IF result.settled = "resolved" THEN PayloadValue(result.value) ELSE held

\* The header badge: apiHealthy ? "API Online" : apiHealthy === false ?
\* "API Offline" : "Checking..." (the source writes an ellipsis character)
HealthBadge(h) ==
    IF h = <<TRUE>> THEN "API Online"
    ELSE IF h = <<FALSE>> THEN "API Offline"
    ELSE "Checking..."

\* After the first render the mount effect has run: the three requests are out
\* (no signal is passed) and none has settled.
MountStart ==
    /\ apiHealthy = <<>>
    /\ categories = JsList(<<>>)
    /\ tags = JsList(<<>>)
    /\ mount = [c \in MountCalls |-> apiRequestStart("none").result]

\* Call c settles with result and its handlers run.
MountSettle(c, result) ==
    /\ mount[c] = Pending
    /\ mount' = [mount EXCEPT ![c] = result]
    /\ apiHealthy' = IF c = "health" THEN HealthAfter(result, apiHealthy) ELSE apiHealthy
    /\ categories' = IF c = "categories" THEN ListAfter(result, categories) ELSE categories
    /\ tags' = IF c = "tags" THEN ListAfter(result, tags) ELSE tags
    /\ UNCHANGED nonMountVars

MountAnswered ==
    \E c \in MountCalls, res \in MountReplies : MountSettle(c, apiRequestSettle(res))

MountUnreachable ==
    \E c \in MountCalls : MountSettle(c, Rejected("TypeError", "Failed to fetch"))

MountNext ==
    \/ MountAnswered
    \/ MountUnreachable

----------------------------------------------------------------------------
(* App.tsx: searches and toasts *)

\* Bounds of the App model: file submissions and "New Search" clicks.
MaxSearches == 2
MaxTips == 1

\* uid("toast"): a random token; two calls may return the same one.
ToastIds == {"toast_a1b2c3", "toast_x7y8z9"}

NoMatches == "No matches found. Try adjusting filters or another image."
Tip == "Tip: drag & drop or paste an image to start searching."

\* The answers the backend gives to POST /search in the model.
SearchReplies ==
    {Response(TRUE, 200, "OK", b) :
        b \in {BodyNull, BodyHtml, BodyNoItems, BodyNoItemsTotal2, BodyTotalOnly,
               BodyOneItem, BodyTwoItems}}
    \cup {Response(FALSE, 500, "Internal Server Error", b) :
        b \in {BodyEmpty, BodyMessage}}

\* res.items, res.total of a resolved search (undefined: <<>>)
ItemsOf(body) == FieldOfPayload(body, "items")
TotalOf(body) == FieldOfPayload(body, "total")

\* Mutant of handleFilesOutcome: the catch branch also clears the results.
handleFilesOutcomeClearsOnError(result, r, n) ==
    IF result.settled = "resolved" /\ result.value.json # "null"
    THEN LET items == IF ItemsOf(result.value) = <<>> THEN <<>>
                      ELSE ItemsOf(result.value)[1]
             tot == IF TotalOf(result.value) = <<>> THEN 0
                    ELSE TotalOf(result.value)[1]
         IN  [results |-> items, total |-> tot,
              toast |-> IF Len(items) = 0 THEN <<"info", NoMatches>> ELSE <<>>]
    ELSE [results |-> <<>>, total |-> 0,
          toast |-> <<"error",
                      IF result.settled = "resolved"
                      THEN "Cannot read properties of null (reading 'items')"
                      ELSE OrElse(<<result.message>>, "Search failed")>>]

\* Mutant of handleFilesOutcome: an empty answer leaves the old results shown.
handleFilesOutcomeKeepsOnEmpty(result, r, n) ==
    IF result.settled = "resolved" /\ result.value.json # "null"
    THEN LET items == IF ItemsOf(result.value) = <<>> THEN <<>>
                      ELSE ItemsOf(result.value)[1]
             tot == IF TotalOf(result.value) = <<>> THEN 0
                    ELSE TotalOf(result.value)[1]
         IN  [results |-> IF Len(items) = 0 THEN r ELSE items, total |-> tot,
              toast |-> IF Len(items) = 0 THEN <<"info", NoMatches>> ELSE <<>>]
    ELSE [results |-> r, total |-> n,
          toast |-> <<"error",
                      IF result.settled = "resolved"
                      THEN "Cannot read properties of null (reading 'items')"
                      ELSE OrElse(<<result.message>>, "Search failed")>>]

\* Mutant of handleFilesOutcome: the new items are put before the old results.
handleFilesOutcomeMerges(result, r, n) ==
    IF result.settled = "resolved" /\ result.value.json # "null"
    THEN LET items == IF ItemsOf(result.value) = <<>> THEN <<>>
                      ELSE ItemsOf(result.value)[1]
             tot == IF TotalOf(result.value) = <<>> THEN 0
                    ELSE TotalOf(result.value)[1]
         IN  [results |-> items \o r, total |-> tot,
              toast |-> IF Len(items) = 0 THEN <<"info", NoMatches>> ELSE <<>>]
    ELSE [results |-> r, total |-> n,
          toast |-> <<"error",
                      IF result.settled = "resolved"
                      THEN "Cannot read properties of null (reading 'items')"
                      ELSE OrElse(<<result.message>>, "Search failed")>>]

\* handleFiles after the await, from results r and total n:
\*   try   setResults(res.items || []); setTotal(res.total || 0);
\*         if (!res.items?.length) pushToast("info", ...)
\*   catch pushToast("error", err?.message || "Search failed")
\* A search resolved with null throws at res.items, before setResults.
handleFilesOutcome(result, r, n) ==
    IF result.settled = "resolved" /\ result.value.json # "null"
    THEN LET items == IF ItemsOf(result.value) = <<>> THEN <<>>
                      ELSE ItemsOf(result.value)[1]
             tot == IF TotalOf(result.value) = <<>> THEN 0
                    ELSE TotalOf(result.value)[1]
         IN  [results |-> items, total |-> tot,
              toast |-> IF Len(items) = 0 THEN <<"info", NoMatches>> ELSE <<>>]
    ELSE [results |-> r, total |-> n,
          toast |-> <<"error",
                      IF result.settled = "resolved"
                      THEN "Cannot read properties of null (reading 'items')"
                      ELSE OrElse(<<result.message>>, "Search failed")>>]

\* ev after a settled search: its result, the state the handler resumed in
\* (results, total, toasts) and the request with the state at its submission.
\* Every other step resets ev to NoEvent.
Event(kind, result, q) ==
    [kind |-> kind, result |-> result, results |-> results, total |-> total,
     toasts |-> toasts, request |-> q]

NoRequest == [q |-> 0, results |-> <<>>, total |-> 0]

NoEvent ==
    [kind |-> "none", result |-> Pending, results |-> <<>>, total |-> 0,
     toasts |-> <<>>, request |-> NoRequest]

AppStart ==
    /\ isSearching = FALSE
    /\ results = <<>>
    /\ total = 0
    /\ toasts = <<>>
    /\ timers = [i \in ToastIds |-> 0]
    /\ inflight = {}
    /\ submitted = 0
    /\ tips = 0
    /\ ev = NoEvent

\* pushToast(kind, message) with the token uid returned: the toast is
\* appended and a timer is set to remove the toasts with that id.
pushToast(id, kind, message) ==
    /\ toasts' = Append(toasts, [id |-> id, kind |-> kind, message |-> message])
    /\ timers' = [timers EXCEPT ![id] = @ + 1]

\* handleFiles(files) with files: setIsSearching(true), then uploadAndSearch
\* (no signal) is awaited.
AppSubmit ==
    /\ submitted < MaxSearches
    /\ submitted' = submitted + 1
    /\ inflight' = inflight \cup
            {[q |-> submitted + 1, results |-> results, total |-> total]}
    /\ isSearching' = TRUE
    /\ ev' = NoEvent
    /\ UNCHANGED <<results, total, toasts, timers, tips, nonAppVars>>

\* handleFiles([]): the early return.
AppSubmitEmpty ==
    /\ ev' = NoEvent
    /\ UNCHANGED <<isSearching, results, total, toasts, timers, inflight,
                   submitted, tips, nonAppVars>>

\* Mutant of AppSettle: setIsSearching(false) is skipped after a rejection.
AppSettleKeepsSearchingOnError(q, result) ==
    /\ q \in inflight
    /\ inflight' = inflight \ {q}
    /\ LET o == handleFilesOutcome(result, results, total) IN
         /\ results' = o.results
         /\ total' = o.total
         /\ IF o.toast = <<>>
            THEN UNCHANGED <<toasts, timers>>
            ELSE \E id \in ToastIds : pushToast(id, o.toast[1], o.toast[2])
    /\ isSearching' = (isSearching /\ result.settled = "rejected")
    /\ ev' = Event("settled", result, q)
    /\ UNCHANGED <<submitted, tips, nonAppVars>>

\* The awaited uploadAndSearch of request q settles with result; the rest of
\* handleFiles runs: try or catch, then finally setIsSearching(false).
AppSettle(q, result) ==
    /\ q \in inflight
    /\ inflight' = inflight \ {q}
    /\ LET o == handleFilesOutcome(result, results, total) IN
         /\ results' = o.results
         /\ total' = o.total
         /\ IF o.toast = <<>>
            THEN UNCHANGED <<toasts, timers>>
            ELSE \E id \in ToastIds : pushToast(id, o.toast[1], o.toast[2])
    /\ isSearching' = FALSE
    /\ ev' = Event("settled", result, q)
    /\ UNCHANGED <<submitted, tips, nonAppVars>>

AppSearchAnswered ==
    \E q \in inflight, res \in SearchReplies : AppSettle(q, uploadAndSearchSettle(res))

AppSearchUnreachable ==
    \E q \in inflight : AppSettle(q, Rejected("TypeError", "Failed to fetch"))

\* The awaited uploadAndSearch is rejected because its cancellation signal
\* was triggered.  handleFiles hands no signal to uploadAndSearch, so AppNext
\* does not take this step; it is the continuation of handleFiles for the
\* rejection uploadAndSearch produces when its signal parameter is used.
AppSearchCancelled ==
    \E q \in inflight : AppSettle(q, uploadAndSearchStart("aborted").result)

\* A toast timer fires: setToasts((t) => t.filter((x) => x.id !== id))
AppToastExpires ==
    \E id \in ToastIds :
        /\ timers[id] > 0
        /\ timers' = [timers EXCEPT ![id] = @ - 1]
        /\ toasts' = SelectSeq(toasts, LAMBDA x : x.id # id)
        /\ ev' = NoEvent
        /\ UNCHANGED <<isSearching, results, total, inflight, submitted, tips,
                       nonAppVars>>

\* "Clear Results": setResults([])
AppClearResults ==
    /\ results' = <<>>
    /\ ev' = NoEvent
    /\ UNCHANGED <<isSearching, total, toasts, timers, inflight, submitted, tips,
                   nonAppVars>>

\* "New Search": pushToast("info", tip)
AppNewSearch ==
    /\ tips < MaxTips
    /\ tips' = tips + 1
    /\ \E id \in ToastIds : pushToast(id, "info", Tip)
    /\ ev' = NoEvent
    /\ UNCHANGED <<isSearching, results, total, inflight, submitted, nonAppVars>>

AppNext ==
    \/ AppSubmit
    \/ AppSubmitEmpty
    \/ AppSearchAnswered
    \/ AppSearchUnreachable
    \/ AppToastExpires
    \/ AppClearResults
    \/ AppNewSearch

----------------------------------------------------------------------------
(* App.tsx: the details drawer *)

SelectStart == selected = <<>>

\* "View" on a product card: setSelected(p).  The cards are rendered only
\* while no search is shown as running, one per product of results.
AppView(p) ==
    /\ ~isSearching
    /\ p \in Range(results)
    /\ selected' = <<p>>
    /\ ev' = NoEvent
    /\ UNCHANGED nonSelectVars

\* The drawer's Close button: onClose = () => setSelected(null)
AppCloseDrawer ==
    /\ selected' = <<>>
    /\ ev' = NoEvent
    /\ UNCHANGED nonSelectVars

\* keydown with e.key === "Escape": setSelected(null)
AppEscape ==
    /\ selected' = <<>>
    /\ ev' = NoEvent
    /\ UNCHANGED nonSelectVars

SelectNext ==
    \/ \E p \in {"p1", "p2"} : AppView(p)
    \/ AppCloseDrawer
    \/ AppEscape

----------------------------------------------------------------------------
(* Specifications *)

Init ==
    /\ UploadStart /\ PanelStart /\ ApiStart /\ FormStart
    /\ AbortStart /\ MountStart /\ AppStart /\ SelectStart

SpecUpload == Init /\ [][UploadNext]_vars

SpecPanel == Init /\ [][PanelNext]_vars

SpecApi == Init /\ [][ApiNext]_vars

SpecForm == Init /\ [][FormNext]_vars

SpecAbort == Init /\ [][AbortNext]_vars

SpecApp == Init /\ [][AppNext]_vars

\* The panel and App when React runs every effect that is due
SpecPanelLive == Init /\ [][PanelNext]_vars /\ WF_vars(PanelEffects)

\* The search life cycle of App (submissions, completions, Clear Results)
\* when every search request issued eventually resolves or rejects
AppSearchNext ==
    \/ AppSubmit
    \/ AppSubmitEmpty
    \/ AppSearchAnswered
    \/ AppSearchUnreachable
    \/ AppClearResults

SpecAppLive ==
    Init /\ [][AppSearchNext]_vars /\ WF_vars(AppSearchAnswered \/ AppSearchUnreachable)

\* Searches, Clear Results and the details drawer
SpecSelect == Init /\ [][AppSearchNext \/ SelectNext]_vars

\* handleFiles with its search call attached to a cancellation signal
SpecCancel ==
    Init /\ [][AppSubmit \/ AppSearchAnswered \/ AppSearchCancelled
                \/ AppToastExpires]_vars

\* The mount calls settling while the user pushes, and timers remove, toasts
SpecMount == Init /\ [][MountNext \/ AppNewSearch \/ AppToastExpires]_vars

Next ==
    UploadNext \/ PanelNext \/ ApiNext \/ FormNext \/ AbortNext \/ MountNext
    \/ AppNext \/ SelectNext

Spec == Init /\ [][Next]_vars

----------------------------------------------------------------------------
(* Claims about ImageUpload *)

\* C3: over any sequence of file batches followed by teardown, no preview
\* object URL is passed to URL.revokeObjectURL more than once.
C3_NoDoubleRelease == \A u \in Urls : revoked[u] <= 1

\* C4: by the time the component is torn down, every object URL created in
\* handleFiles has been revoked at least once, whatever the batch sizes.
C4_NoLeakAfterTeardown ==
    ~uploadMounted => \A u \in 1..created : revoked[u] >= 1

\* C5: while the component is mounted, no URL that is still in the current
\* preview list has been revoked.
C5_ShownUrlsNotRevoked ==
    uploadMounted => \A u \in Range(previews) : revoked[u] = 0

\* Number of URLs created by the first k batches
RECURSIVE CreatedBy(_)
CreatedBy(k) == IF k = 0 THEN 0 ELSE CreatedBy(k - 1) + batches[k]

\* The batch (1: the oldest) in which URL u was created
BatchOf(u) == CHOOSE k \in 1..Len(batches) : CreatedBy(k - 1) < u /\ u <= CreatedBy(k)

\* C17: after any sequence of file batches, previews holds at most 6 URLs,
\* and they are the URLs of the most recently added files, newest batch
\* first: no URL left out comes from a newer batch than a URL shown, batches
\* appear newest first, and the files of one batch appear in file order.
C17_PreviewsAreNewestSix ==
    /\ Len(previews) = Min2(PreviewCap, created)
    /\ \A u \in Range(previews) : u \in 1..created
    /\ \A u \in Range(previews), v \in (1..created) \ Range(previews) :
           BatchOf(v) <= BatchOf(u)
    /\ \A i, j \in 1..Len(previews) :
           i < j => \/ BatchOf(previews[i]) > BatchOf(previews[j])
                    \/ /\ BatchOf(previews[i]) = BatchOf(previews[j])
                       /\ previews[i] < previews[j]

\* C17 witness: more than six files in several batches; the list is full and
\* still shows part of an older batch.
C17_Witness ==
    /\ created > PreviewCap
    /\ Len(batches) >= 2
    /\ Len(previews) = PreviewCap
    /\ \E u \in Range(previews) : BatchOf(u) < Len(batches)
    /\ \E v \in (1..created) \ Range(previews) : TRUE

----------------------------------------------------------------------------
(* Claims about FilterPanel *)

Fields == {"query", "category", "price", "colors", "inStock", "detectedTags", "sort"}

FieldOf(kind) ==
    CASE kind = "min" -> "price"
      [] kind = "max" -> "price"
      [] kind = "color" -> "colors"
      [] kind = "tag" -> "detectedTags"
      [] OTHER -> kind

\* The edited field of e holds what the edit put in, seen from pre.
ReflectsEdit(e, pre) ==
    CASE edit.kind = "query" -> e.query = edit.text
      [] edit.kind = "category" ->
            e.category = (IF edit.text = "" THEN <<>> ELSE <<edit.text>>)
      [] edit.kind = "min" ->
            e.price[1] = CoercePrice(edit.text) /\ e.price[2] = pre.price[2]
      [] edit.kind = "max" ->
            e.price[2] = CoercePrice(edit.text) /\ e.price[1] = pre.price[1]
      [] edit.kind = "color" ->
            \A c \in ColorOptions :
                Includes(e.colors, c) = (Includes(pre.colors, c) # (c = edit.text))
      [] edit.kind = "tag" ->
            \A c \in TagOptions :
                Includes(e.detectedTags, c) =
                    (Includes(pre.detectedTags, c) # (c = edit.text))
      [] edit.kind = "inStock" -> e.inStock = edit.checked
      [] edit.kind = "sort" -> e.sort = edit.text

\* C6: for each single FilterPanel mutation (query, category, min price, max
\* price, color toggle, tag toggle, in-stock flag, sort key), the object the
\* panel emits through onChange for it equals the panel state before the
\* mutation in every field but the mutated one, which holds the mutation.
C6_EmitChangesOnlyMutatedField ==
    (emitFollowsEdit /\ edit.kind # "clear") =>
        /\ \A f \in Fields \ {FieldOf(edit.kind)} : emitted[1][f] = edit.pre[f]
        /\ ReflectsEdit(emitted[1], edit.pre)

\* C6 witness: a color toggle emitted from a state that already differs from
\* the defaults in other fields.
C6_Witness ==
    /\ emitFollowsEdit
    /\ edit.kind = "color"
    /\ edit.pre.query = "bag"
    /\ edit.pre.price # DEFAULTS.price
    /\ emitted[1].colors # edit.pre.colors

\* The panel state holds the last user edit: every field as before the edit
\* but the edited one, which holds the edit (after clearAll: the defaults).
StateHoldsEdit ==
    IF edit.kind = "clear" THEN state = DEFAULTS
    ELSE /\ \A f \in Fields \ {FieldOf(edit.kind)} : state[f] = edit.pre[f]
         /\ ReflectsEdit(state, edit.pre)

\* C13: FilterPanel's state and App's filters stay in sync.  In the form a
\* finite run can refute: from a user mutation until the next user input the
\* panel state holds the mutation (merging the value prop never reverts it),
\* and once App has been notified its filters equal the panel state and both
\* keep that value.
C13_EditKeptAndSharedWithApp ==
    edit.kind # "none" =>
        /\ StateHoldsEdit
        /\ ~edit.fresh => filters = state

\* C7: after any sequence of min/max edits, the price pair reported through
\* onChange, and the price sent in a search's filters, has price[0] <= price[1].
C7_ReportedPriceOrdered ==
    /\ \A i \in 1..Len(emitted) : emitted[i].price[1] <= emitted[i].price[2]
    /\ toApiFilters(filters).base.price[1] <= toApiFilters(filters).base.price[2]

\* C8: for any filter state and any color c (tag t), toggleColor(c) twice
\* (toggleTag(t) twice) gives a colors (detectedTags) field with the same
\* members as before and leaves every other field unchanged.
C8_ToggleTwiceRestoresMembership ==
    \A s \in {state, filters} :
        /\ \A c \in ColorOptions :
              LET t == toggleColor(toggleColor(s, c), c) IN
                /\ Range(t.colors) = Range(s.colors)
                /\ \A f \in Fields \ {"colors"} : t[f] = s[f]
        /\ \A c \in TagOptions :
              LET t == toggleTag(toggleTag(s, c), c) IN
                /\ Range(t.detectedTags) = Range(s.detectedTags)
                /\ \A f \in Fields \ {"detectedTags"} : t[f] = s[f]

\* C8 witness: a state reached by color toggles that holds two colors, where
\* toggling the first one twice moves it to the end (same members, new order).
C8_Witness ==
    /\ edit.kind = "color"
    /\ Len(state.colors) = 2
    /\ toggleColor(toggleColor(state, state.colors[1]), state.colors[1]).colors
           = <<state.colors[2], state.colors[1]>>

\* A sequence holds no element twice.
NoDuplicate(s) == \A i, j \in 1..Len(s) : i # j => s[i] # s[j]

\* C16: starting from the default filters, after any sequence of color and
\* tag toggles the panel's colors and detectedTags each hold no duplicate,
\* and so do the filters App holds and the objects the panel emits.
C16_TogglesKeepSelectionsDuplicateFree ==
    /\ NoDuplicate(state.colors)
    /\ NoDuplicate(state.detectedTags)
    /\ NoDuplicate(filters.colors)
    /\ NoDuplicate(filters.detectedTags)
    /\ \A i \in 1..Len(emitted) :
           NoDuplicate(emitted[i].colors) /\ NoDuplicate(emitted[i].detectedTags)

\* C16 witness: a tag that was selected is toggled again, with a color selected.
C16_Witness ==
    /\ edit.kind = "tag"
    /\ Includes(edit.pre.detectedTags, edit.text)
    /\ ~Includes(state.detectedTags, edit.text)
    /\ Len(state.colors) >= 1

\* No effect of the panel is due: the exchange with App is at rest.
Quiescent == ~valueChanged /\ ~stateChanged

\* C22: the notification exchange between FilterPanel and App terminates:
\* after mount with no user input, and after any filter mutation, the cycle
\* of onChange, setFilters, value merge and new panel state comes to rest
\* after finitely many onChange calls, and stays at rest with no further input.
C22_ExchangeTerminates == <>[]Quiescent

----------------------------------------------------------------------------
(* Claims about the HTTP client *)

StatusLine(res) == ToString(res.status) \o " " \o res.statusText

\* C9: uploadAndSearch called with a signal that is already aborted never
\* issues a network request and rejects with an abort error, never with a
\* server-error message and never with a SearchResponse.
C9_AbortedSearchSendsNothing ==
    (call.fn = "uploadAndSearch" /\ call.signal = "aborted") =>
        /\ ~call.sent
        /\ ~call.answered
        /\ call.phase = "settled"
        /\ outcome.settled = "rejected"
        /\ outcome.errorName = "AbortError"

\* C9 witness: such a call has been made and has settled.
C9_Witness ==
    /\ call.fn = "uploadAndSearch"
    /\ call.signal = "aborted"
    /\ call.phase = "settled"
    /\ outcome.errorName = "AbortError"

\* C10 as stated: for every client call, a non-2xx response whose body is
\* JSON with a message field (read as: one that carries text) rejects with
\* that field's text as the message; when the body is not JSON the message is
\* built from the HTTP status text.
C10_Original ==
    (call.answered /\ ~call.res.ok) =>
        /\ outcome.settled = "rejected"
        /\ (/\ call.res.body.json = "object"
            /\ call.res.body.message # <<>>
            /\ call.res.body.message[1] # "") =>
                outcome.message = call.res.body.message[1]
        /\ (call.res.body.json = "none") =>
                outcome.message \in {"API error " \o StatusLine(call.res),
                                     "Search failed: " \o StatusLine(call.res)}

\* C10 amended: for the calls made through apiRequest (getHealth,
\* getCategories, getTags, precomputeEmbeddings, getProduct) a non-2xx
\* response whose body is JSON with a non-empty message field rejects with
\* that text, and one whose body is not JSON rejects with
\* "API error <status> <statusText>"; uploadAndSearch does not parse the body:
\* it rejects with the raw body text when the body is non-empty and with
\* "Search failed: <status> <statusText>" when it is empty.
C10_ErrorMessagePolicy ==
    (call.answered /\ ~call.res.ok) =>
        /\ outcome.settled = "rejected"
        /\ outcome.errorName = "Error"
        /\ IF call.fn \in ApiRequestFns
           THEN /\ (/\ call.res.body.json = "object"
                    /\ call.res.body.message # <<>>
                    /\ call.res.body.message[1] # "") =>
                        outcome.message = call.res.body.message[1]
                /\ (call.res.body.json = "none") =>
                        outcome.message = "API error " \o StatusLine(call.res)
           ELSE /\ (call.res.body.text # "") => outcome.message = call.res.body.text
                /\ (call.res.body.text = "") =>
                        outcome.message = "Search failed: " \o StatusLine(call.res)

\* C10 witness: a search answered 500 with a JSON message body has rejected
\* with the raw body text, not with the message field.
C10_Witness ==
    /\ call.fn = "uploadAndSearch"
    /\ call.answered
    /\ call.res = Response(FALSE, 500, "Internal Server Error", BodyMessage)
    /\ outcome.message = "{\"message\":\"index not built\"}"

----------------------------------------------------------------------------
(* Claims about the multipart body *)

\* The parts of a body with the given field name, in body order
PartsNamed(body, name) == SelectSeq(body, LAMBDA p : p.name = name)

\* At least one filter is set: the argument is an object and one of its
\* fields holds a value.
SomeFilterSet(arg) == arg.given /\ \E k \in DOMAIN arg.obj : arg.obj[k] # <<>>

\* C11: the body built for uploadAndSearch has exactly one "files" part per
\* input file, in input order, and a single JSON "filters" part exactly when
\* at least one filter is set; with no filters argument, or an object whose
\* every field is undefined, it has no "filters" part.
C11_FiltersPartIffSomeFilterSet ==
    formArgs.built =>
        LET fileParts == PartsNamed(formBody, "files")
            filterParts == PartsNamed(formBody, "filters")
        IN  /\ Len(fileParts) = Len(formArgs.files)
            /\ \A i \in 1..Len(fileParts) : fileParts[i].file = i
            /\ Len(filterParts) <= 1
            /\ (Len(filterParts) = 1) <=> SomeFilterSet(formArgs.filters)
            /\ \A i \in 1..Len(filterParts) :
                   filterParts[i].json = JsonStringify(formArgs.filters.obj)

----------------------------------------------------------------------------
(* Claims about App *)

\* The step just taken added exactly one toast, of the given kind.
AddedOneToast(kind) ==
    /\ Len(toasts) = Len(ev.toasts) + 1
    /\ SubSeq(toasts, 1, Len(ev.toasts)) = ev.toasts
    /\ toasts[Len(toasts)].kind = kind

\* The search that just settled resolved with a response holding no item.
ResolvedWithZeroItems ==
    /\ ev.kind = "settled"
    /\ ev.result.settled = "resolved"
    /\ ev.result.value.json \in {"object", "array"}
    /\ (ItemsOf(ev.result.value) = <<>> \/ ItemsOf(ev.result.value)[1] = <<>>)

\* C1 as stated: whatever results and total were, when the uploadAndSearch
\* call made by handleFiles rejects, exactly one toast of kind error carrying
\* the error's message is added, and results and total are as they were
\* before the submission.
C1_Original ==
    (ev.kind = "settled" /\ ev.result.settled = "rejected") =>
        /\ AddedOneToast("error")
        /\ toasts[Len(toasts)].message = ev.result.message
        /\ results = ev.request.results
        /\ total = ev.request.total

\* C1 amended: when the call rejects, handling the rejection adds exactly one
\* toast, of kind error, carrying the error's message, and changes neither
\* results nor total: they are as they were just before the rejection was
\* handled (what happened since the submission, Clear Results or another
\* search completing, is kept).
C1_RejectedSearchToastsAndKeepsResults ==
    (ev.kind = "settled" /\ ev.result.settled = "rejected") =>
        /\ AddedOneToast("error")
        /\ toasts[Len(toasts)].message = ev.result.message
        /\ results = ev.results
        /\ total = ev.total

\* C1 witness: a search rejects with a server error while two products of
\* an earlier search are shown.
C1_Witness ==
    /\ ev.kind = "settled"
    /\ ev.result.settled = "rejected"
    /\ ev.result.errorName = "Error"
    /\ results = <<"p2", "p1">>
    /\ total = 2
    /\ ev.request.results = <<"p2", "p1">>
    /\ toasts[Len(toasts)].kind = "error"

\* C2: when the uploadAndSearch call made by handleFiles resolves with zero
\* items, exactly one toast is added, of kind info (no error toast), and the
\* results list is empty afterwards, whatever it held before.
C2_EmptySearchToastsInfoAndEmptiesResults ==
    ResolvedWithZeroItems =>
        /\ AddedOneToast("info")
        /\ results = <<>>

\* C2 witness: a search resolves with no item while products were shown.
C2_Witness ==
    /\ ResolvedWithZeroItems
    /\ Len(ev.results) > 0
    /\ results = <<>>
    /\ toasts[Len(toasts)].kind = "info"

\* The last step was a search of handleFiles completing successfully: the
\* awaited call resolved with a JSON object and the try block ran through.
SearchSucceeded ==
    /\ ev.kind = "settled"
    /\ ev.result.settled = "resolved"
    /\ ev.result.value.json = "object"

\* C12: when a search issued by handleFiles completes successfully, results
\* becomes exactly the response's items, in response order, with no product
\* of the previous results kept or merged, and total becomes the response's
\* total (no items: the empty list; no total: 0).
C12_SuccessReplacesResultsAndTotal ==
    SearchSucceeded =>
        /\ results = (IF ev.result.value.items = <<>> THEN <<>>
                      ELSE ev.result.value.items[1])
        /\ total = (IF ev.result.value.total = <<>> THEN 0
                    ELSE ev.result.value.total[1])

\* C12 witness: a search answered with one product replaces two shown products.
C12_Witness ==
    /\ SearchSucceeded
    /\ ev.result.value = BodyOneItem
    /\ ev.results = <<"p2", "p1">>
    /\ ev.total = 2
    /\ results = <<"p1">>
    /\ total = 1

C15_ToastIdsDistinct ==
    \A i, j \in 1..Len(toasts) : i # j => toasts[i].id # toasts[j].id

\* C18: whenever at least one uploadAndSearch call issued by handleFiles is in
\* flight, isSearching is true (the results area shows the loading skeleton),
\* also when a second submission was made before the first one completed.
C18_SearchingWhileInFlight == inflight # {} => isSearching

\* Call c settles in this step, as a rejection / as a resolution.
MountFails(c) == mount[c] = Pending /\ mount'[c].settled = "rejected"
MountSucceeds(c) == mount[c] = Pending /\ mount'[c].settled = "resolved"

\* C19: a failure of a mount-time call affects only that call's own state,
\* in any completion order.  A failed health call sets the status to offline
\* and the status never returns to "checking"; a failed categories or tags
\* call leaves that list empty; no failure adds a toast, changes the results
\* or the state of the other two calls, which stay pending if they were and
\* apply their outcome when they resolve.
C19_MountFailureIsLocal ==
    [][/\ \A c \in MountCalls :
            MountFails(c) =>
               /\ toasts' = toasts /\ results' = results /\ total' = total
               /\ \A d \in MountCalls \ {c} : mount'[d] = mount[d]
               /\ IF c = "health"
                  THEN HealthBadge(apiHealthy') = "API Offline"
                  ELSE apiHealthy' = apiHealthy
               /\ IF c = "categories"
                  THEN categories' = JsList(<<>>)
                  ELSE categories' = categories
               /\ IF c = "tags" THEN tags' = JsList(<<>>) ELSE tags' = tags
       /\ HealthBadge(apiHealthy) # "Checking..." =>
              HealthBadge(apiHealthy') # "Checking..."
       /\ MountSucceeds("health") => HealthBadge(apiHealthy') = "API Online"
       /\ MountSucceeds("categories") =>
              categories' = PayloadValue(mount'["categories"].value)
       /\ MountSucceeds("tags") => tags' = PayloadValue(mount'["tags"].value)
      ]_vars

\* C19 witness: health and tags failed, categories resolved with its list in
\* between or after, while a toast pushed by the user is displayed.
C19_Witness ==
    /\ mount["health"].settled = "rejected"
    /\ HealthBadge(apiHealthy) = "API Offline"
    /\ mount["tags"].settled = "rejected"
    /\ tags = JsList(<<>>)
    /\ mount["categories"].settled = "resolved"
    /\ categories = JsList(<<"shoes", "bags">>)
    /\ Len(toasts) = 1
    /\ results = <<>>

\* The timer set by one pushToast call fires in this step.
TimerFires == \E id \in ToastIds : timers'[id] = timers[id] - 1

\* C20: every toast added by pushToast is removed, without user action, once
\* its timer fires, and removing it removes no other toast.  In the form a
\* finite run can refute: a timer that fires takes exactly one toast, its own,
\* out of the list and leaves the others in place and in order.
C20_TimerRemovesOnlyItsToast ==
    [][TimerFires =>
          \E k \in 1..Len(toasts) :
              /\ timers'[toasts[k].id] = timers[toasts[k].id] - 1
              /\ toasts' = SubSeq(toasts, 1, k - 1) \o SubSeq(toasts, k + 1, Len(toasts))
      ]_vars

\* C21: no search outcome blocks the UI.  If every issued search request
\* eventually resolves or rejects, isSearching eventually becomes false, with
\* no request left, whether the searches succeeded, returned no item or
\* failed; it is false whenever no request is in flight, and only a non-empty
\* file submission makes it true again.
C21_SearchingEventuallyFalse ==
    /\ [](inflight = {} => ~isSearching)
    /\ [][(~isSearching /\ isSearching') => submitted' = submitted + 1]_vars
    /\ isSearching ~> (inflight = {} /\ ~isSearching)

\* C21 witness: two searches, one failed and one answered with no item, have
\* both completed and the loading state is off.
C21_Witness ==
    /\ submitted = 2
    /\ inflight = {}
    /\ ~isSearching
    /\ Len(toasts) = 2
    /\ \E i, j \in 1..Len(toasts) : toasts[i].kind = "error" /\ toasts[j].kind = "info"

\* C23: when two file submissions overlap, once both search calls have
\* completed successfully the displayed results and total are those of the
\* later-submitted search, in whichever order the two responses arrive.  As
\* a step property: when the later-submitted search has completed
\* successfully and the earlier-submitted one then completes successfully,
\* the results and total shown stay those of the later-submitted search.
C23_LaterSubmissionWins ==
    [][(SearchSucceeded /\ SearchSucceeded' /\ ev.request.q > ev'.request.q) =>
          (results' = results /\ total' = total)
      ]_vars

\* C24: in every reachable state of App in which no search is in flight and
\* the results list is empty, total is 0 (the header reads "No results yet"),
\* in particular after Clear Results and after a search that returned no item.
C24_EmptyResultsMeanZeroTotal ==
    (inflight = {} /\ results = <<>>) => total = 0

----------------------------------------------------------------------------
(* Claims about withAbort *)

\* C25: for every call made through withAbort(fn).run(...args), the wrapper's
\* abort signal reaches fn's signal parameter, also when optional trailing
\* arguments are omitted (run(files) on uploadAndSearch); the signal is never
\* bound to another parameter such as filters.
C25_SignalReachesSignalParameter ==
    \A i \in 1..Len(runs) :
        /\ runs[i].signalParam = "signal"
        /\ runs[i].filtersParam # "signal"

\* C27: all calls made through one withAbort wrapper share one controller:
\* once cancel() was called no call started via run is still in flight, and
\* every run() invoked after cancel() started with an aborted signal: it sent
\* no request and was rejected with a cancellation error.
C27_CancelReachesEveryRun ==
    /\ controllerAborted => \A i \in 1..Len(runs) : runs[i].phase = "settled"
    /\ \A i \in 1..Len(runs) :
           runs[i].afterCancel =>
               /\ ~runs[i].sent
               /\ runs[i].outcome.settled = "rejected"
               /\ runs[i].outcome.errorName = "AbortError"

----------------------------------------------------------------------------
(* Claims about the values App holds *)

\* C26: the categories and tags held by App are always sequences of
\* strings: for every outcome of getCategories / getTags (network error,
\* non-2xx, 2xx with a JSON array, 2xx with a body that is not JSON) the
\* stored value is never null or a non-sequence, and after a failure it is
\* the empty list.
C26_ListsStaySequences ==
    /\ categories.json = "array"
    /\ tags.json = "array"
    /\ mount["categories"].settled = "rejected" => categories = JsList(<<>>)
    /\ mount["tags"].settled = "rejected" => tags = JsList(<<>>)

\* C28: in every reachable state of App, the selected product shown in the
\* details drawer is null or a member of the current results list, also
\* after the results are replaced by a new search or emptied by Clear Results.
C28_SelectedIsShownResult ==
    selected = <<>> \/ selected[1] \in Range(results)

====
